---- MODULE Spec2Model ----
(***************************************************************************)
(* A model of src/main.rs: the line-oriented command language made of      *)
(* parse (text -> Vec<Command>) and Evaluator::evaluate (commands against  *)
(* a variable table and an operand stack), driven either by main (one file *)
(* per argument) or by a caller that builds the commands itself, as test1  *)
(* does.                                                                   *)
(*                                                                         *)
(* A Rust String / &str is a sequence of one-character strings.            *)
(***************************************************************************)
EXTENDS Integers, Sequences, FiniteSets, TLC

\* ------------------------------------------------------------------ bounds

\* Width of Value::Int in the model.  The program uses i64; the width is
\* scaled down so that sums leaving the range are reachable.
IntBits == 3
\* Most commands a direct caller hands to one Evaluator, over all its calls.
MaxCmds == 4
\* Most lines of a file read by main.
MaxLines == 3
\* Lines of a text handed to parse alone, and characters of a literal token.
MaxParseLines == 3
MaxTokenLen == 3

IntMax == 2 ^ (IntBits - 1) - 1
IntMin == -(2 ^ (IntBits - 1))

\* ------------------------------------------------------------ data model

ValueNothing == [t |-> "Nothing", i |-> 0, s |-> <<>>]
ValueInt(n) == [t |-> "Int", i |-> n, s |-> <<>>]
ValueString(str) == [t |-> "String", i |-> 0, s |-> str]

NoError == [kind |-> "none", arg |-> <<>>]
MismatchNumParams == [kind |-> "MismatchNumParams", arg |-> <<>>]
MimatchType == [kind |-> "MimatchType", arg |-> <<>>]
UnknownCommand(tok) == [kind |-> "UnknownCommand", arg |-> tok]
MissingVariable(name) == [kind |-> "MissingVariable", arg |-> name]
EmptyStack == [kind |-> "EmptyStack", arg |-> <<>>]
\* Not an EngineError: the thread panics, nothing is returned.
Panic == [kind |-> "panic", arg |-> <<>>]

\* Result<Value, EngineError>
Ok(v) == [ok |-> TRUE, v |-> v, e |-> NoError]
Err(e) == [ok |-> FALSE, v |-> ValueNothing, e |-> e]
\* Result<Vec<Command>, EngineError>
OkVec(cs) == [ok |-> TRUE, v |-> cs, e |-> NoError]
ErrVec(e) == [ok |-> FALSE, v |-> <<>>, e |-> e]

SetVar(name, value) == [op |-> "SetVar", name |-> name, value |-> value]
GetVar(name) == [op |-> "GetVar", name |-> name, value |-> ValueNothing]
PushVar(name) == [op |-> "PushVar", name |-> name, value |-> ValueNothing]
Push(value) == [op |-> "Push", name |-> <<>>, value |-> value]
Pop == [op |-> "Pop", name |-> <<>>, value |-> ValueNothing]
Add == [op |-> "Add", name |-> <<>>, value |-> ValueNothing]

\* Result<Command, EngineError>; c is meaningful only when ok.
OkCommand(c) == [ok |-> TRUE, c |-> c, e |-> NoError]
ErrCommand(e) == [ok |-> FALSE, c |-> Pop, e |-> e]

\* ------------------------------------------------------------------ state

VARIABLES
    caller,        \* "main" | "test": who drives the run
    phase,         \* position of the caller
    contents,      \* main: the text of the current file
    linei,         \* parse: number of lines consumed
    parse_output,  \* parse: its `output` vector
    parse_result,  \* parse: what it returned (NoResult before)
    commands,      \* every command handed to this Evaluator, in order
    base,          \* number of them handed over by earlier evaluate calls
    pc,            \* evaluate: index in commands of the next command
    vars,          \* Evaluator.vars
    stack,         \* Evaluator.stack, top last
    output,        \* evaluate: its `output` local
    result         \* evaluate: what it returned (NoResult before)

allvars == <<caller, phase, contents, linei, parse_output, parse_result,
             commands, base, pc, vars, stack, output, result>>

\* "Nothing returned yet", for result and for parse_result.
NoResult == [ok |-> FALSE, v |-> ValueNothing, e |-> NoError]
NoVec == [ok |-> FALSE, v |-> <<>>, e |-> NoError]

\* ------------------------------------------------------------- Evaluator

EmptyMap == [n \in {} |-> ValueNothing]

\* A faulty variant of insert: an existing binding is kept.
insert_keep_first(map, name, value) ==
    [n \in (DOMAIN map) \cup {name} |->
        IF n \in DOMAIN map THEN map[n] ELSE value]

insert(map, name, value) ==
    [n \in (DOMAIN map) \cup {name} |-> IF n = name THEN value ELSE map[n]]

\* A faulty variant of pop: an empty stack yields a default value.
pop_default(st) ==
    IF Len(st) > 0
    THEN [res |-> Ok(st[Len(st)]), stack |-> SubSeq(st, 1, Len(st) - 1)]
    ELSE [res |-> Ok(ValueInt(0)), stack |-> st]

\* A faulty variant of pop: the oldest entry is removed (a queue).
pop_fifo(st) ==
    IF Len(st) > 0
    THEN [res |-> Ok(st[1]), stack |-> Tail(st)]
    ELSE [res |-> Err(EmptyStack), stack |-> st]

\* Evaluator::pop: the result and the stack it leaves.
pop(st) ==
    IF Len(st) > 0
    THEN [res |-> Ok(st[Len(st)]), stack |-> SubSeq(st, 1, Len(st) - 1)]
    ELSE [res |-> Err(EmptyStack), stack |-> st]

Wrap(n) == ((n - IntMin) % (2 ^ IntBits)) + IntMin

\* i1 + i2 on the machine integer: the sum when it fits; otherwise the build
\* decides (overflow checks on: panic; off: two's complement wrap).
IntAdd(i1, i2) ==
    IF i1 + i2 >= IntMin /\ i1 + i2 <= IntMax
    THEN {Ok(ValueInt(i1 + i2))}
    ELSE {Err(Panic), Ok(ValueInt(Wrap(i1 + i2)))}

\* A faulty variant of add: Value::Nothing is a neutral operand.
add_nothing_neutral(lhs, rhs) ==
    IF lhs.t = "Int" /\ rhs.t = "Int" THEN IntAdd(lhs.i, rhs.i)
    ELSE IF lhs.t = "String" /\ rhs.t = "String"
    THEN {Ok(ValueString(lhs.s \o rhs.s))}
    ELSE IF lhs.t = "Nothing" THEN {Ok(rhs)}
    ELSE IF rhs.t = "Nothing" THEN {Ok(lhs)}
    ELSE {Err(MimatchType)}

\* A faulty variant of add: the second pop is taken as the left operand.
add_swapped(lhs, rhs) ==
    IF lhs.t = "Int" /\ rhs.t = "Int" THEN IntAdd(lhs.i, rhs.i)
    ELSE IF lhs.t = "String" /\ rhs.t = "String"
    THEN {Ok(ValueString(rhs.s \o lhs.s))}
    ELSE {Err(MimatchType)}

\* Evaluator::add: the set of outcomes.
add(lhs, rhs) ==
    IF lhs.t = "Int" /\ rhs.t = "Int" THEN IntAdd(lhs.i, rhs.i)
    ELSE IF lhs.t = "String" /\ rhs.t = "String"
    THEN {Ok(ValueString(lhs.s \o rhs.s))}
    ELSE {Err(MimatchType)}

\* ----------------------------------------------------------------- parser

QUOTE == "\""

starts_with_quote(val) == Len(val) > 0 /\ val[1] = QUOTE
ends_with_quote(val) == Len(val) > 0 /\ val[Len(val)] = QUOTE

parse_var_name(var_name) == var_name

parse_string(val) ==
    IF starts_with_quote(val) /\ ends_with_quote(val) /\ Len(val) > 1
    THEN Ok(ValueString(SubSeq(val, 2, Len(val) - 1)))
    ELSE Err(MimatchType)

Digits == <<"0", "1", "2", "3", "4", "5", "6", "7", "8", "9">>
IsDigit(c) == \E d \in 1..10 : Digits[d] = c
DigitValue(c) == (CHOOSE d \in 1..10 : Digits[d] = c) - 1

RECURSIVE DigitsValue(_)
DigitsValue(ds) ==
    IF ds = <<>> THEN 0
    ELSE 10 * DigitsValue(SubSeq(ds, 1, Len(ds) - 1)) + DigitValue(ds[Len(ds)])

\* A faulty variant of parse_int: a leading "+" is not accepted.
parse_int_no_plus(val) ==
    LET signed == Len(val) > 1 /\ val[1] = "-"
        ds == IF signed THEN Tail(val) ELSE val
        digits == ds # <<>> /\ \A k \in 1..Len(ds) : IsDigit(ds[k])
        n == IF signed THEN -DigitsValue(ds) ELSE DigitsValue(ds)
    IN  IF digits /\ n >= IntMin /\ n <= IntMax
        THEN Ok(ValueInt(n))
        ELSE Err(MimatchType)

\* str::parse::<i64>: an optional single sign, then one or more ASCII digits,
\* and the value must fit the integer type.
parse_int(val) ==
    LET signed == Len(val) > 1 /\ val[1] \in {"+", "-"}
        ds == IF signed THEN Tail(val) ELSE val
        digits == ds # <<>> /\ \A k \in 1..Len(ds) : IsDigit(ds[k])
        n == IF signed /\ val[1] = "-" THEN -DigitsValue(ds) ELSE DigitsValue(ds)
    IN  IF digits /\ n >= IntMin /\ n <= IntMax
        THEN Ok(ValueInt(n))
        ELSE Err(MimatchType)

parse_value(val) ==
    IF starts_with_quote(val) /\ ends_with_quote(val) /\ Len(val) > 1
    THEN parse_string(val)
    ELSE parse_int(val)

parse_set(input) ==
    IF Len(input) # 3 THEN ErrCommand(MismatchNumParams)
    ELSE LET var_name == parse_var_name(input[2])
             value == parse_value(input[3])
         IN  IF value.ok THEN OkCommand(SetVar(var_name, value.v))
             ELSE ErrCommand(value.e)

parse_get(input) ==
    IF Len(input) # 2 THEN ErrCommand(MismatchNumParams)
    ELSE OkCommand(GetVar(parse_var_name(input[2])))

parse_pushvar(input) ==
    IF Len(input) # 2 THEN ErrCommand(MismatchNumParams)
    ELSE OkCommand(PushVar(parse_var_name(input[2])))

\* A faulty variant of parse_push: a literal that does not parse is pushed
\* as Value::Nothing.
parse_push_default(input) ==
    IF Len(input) # 2 THEN ErrCommand(MismatchNumParams)
    ELSE LET val == parse_value(input[2])
         IN  IF val.ok THEN OkCommand(Push(val.v))
             ELSE OkCommand(Push(ValueNothing))

parse_push(input) ==
    IF Len(input) # 2 THEN ErrCommand(MismatchNumParams)
    ELSE LET val == parse_value(input[2])
         IN  IF val.ok THEN OkCommand(Push(val.v)) ELSE ErrCommand(val.e)

\* A faulty variant of AsciiWhitespace: the tab is not whitespace.
AsciiWhitespace_no_tab == {" ", "\n", "\f", "\r"}

AsciiWhitespace == {" ", "\t", "\n", "\f", "\r"}

RECURSIVE SplitFrom(_, _, _)
SplitFrom(line, k, cur) ==
    IF k > Len(line) THEN (IF cur = <<>> THEN <<>> ELSE <<cur>>)
    ELSE IF line[k] \in AsciiWhitespace
    THEN (IF cur = <<>> THEN <<>> ELSE <<cur>>) \o SplitFrom(line, k + 1, <<>>)
    ELSE SplitFrom(line, k + 1, Append(cur, line[k]))

\* str::split_ascii_whitespace: the maximal runs of non-whitespace characters.
split_ascii_whitespace(line) == SplitFrom(line, 1, <<>>)

StripCR(line) ==
    IF Len(line) > 0 /\ line[Len(line)] = "\r"
    THEN SubSeq(line, 1, Len(line) - 1)
    ELSE line

RECURSIVE LinesFrom(_, _, _)
LinesFrom(input, k, cur) ==
    IF k > Len(input) THEN (IF cur = <<>> THEN <<>> ELSE <<cur>>)
    ELSE IF input[k] = "\n"
    THEN <<StripCR(cur)>> \o LinesFrom(input, k + 1, <<>>)
    ELSE LinesFrom(input, k + 1, Append(cur, input[k]))

\* str::lines: split at "\n" (or "\r\n"); a final line needs no terminator.
lines(input) == LinesFrom(input, 1, <<>>)

kw_set == <<"s", "e", "t">>
kw_get == <<"g", "e", "t">>
kw_push == <<"p", "u", "s", "h">>
kw_pushvar == <<"p", "u", "s", "h", "v", "a", "r">>
kw_pop == <<"p", "o", "p">>
kw_add == <<"a", "d", "d">>

\* The match of parse's loop body on one tokenised line: the commands the
\* line appends to `output` (none or one), or the error parse returns.
parse_line(command) ==
    IF command = <<>> THEN OkVec(<<>>)
    ELSE LET x == command[1]
             one(r) == IF r.ok THEN OkVec(<<r.c>>) ELSE ErrVec(r.e)
         IN  IF x = kw_set THEN one(parse_set(command))
             ELSE IF x = kw_get THEN one(parse_get(command))
             ELSE IF x = kw_push THEN one(parse_push(command))
             ELSE IF x = kw_pushvar THEN one(parse_pushvar(command))
             ELSE IF x = kw_pop THEN OkVec(<<Pop>>)
             ELSE IF x = kw_add THEN OkVec(<<Add>>)
             ELSE ErrVec(UnknownCommand(x))

\* ----------------------------------------------------------------- inputs

RECURSIVE JoinWith(_, _)
JoinWith(seqs, sep) ==
    IF seqs = <<>> THEN <<>>
    ELSE IF Len(seqs) = 1 THEN seqs[1]
    ELSE seqs[1] \o sep \o JoinWith(Tail(seqs), sep)

SeqsUpTo(S, n) == UNION {[1..k -> S] : k \in 0..n}

nX == <<"x">>
nY == <<"y">>
Names == {nX, nY}

\* A second integer whose sum with 1 fits and whose double does not.
Big == IntMax - 1

\* Commands a direct caller builds (Command's constructors are open to it,
\* Value::Nothing included).
PushValues == {ValueNothing, ValueInt(1), ValueInt(Big),
               ValueString(<<"a">>), ValueString(<<"b">>)}
DirectCommands ==
    {SetVar(nX, ValueInt(1)), SetVar(nX, ValueString(<<"a">>)),
     SetVar(nY, ValueNothing)}
        \cup {GetVar(n) : n \in Names} \cup {PushVar(nX)}
        \cup {Push(v) : v \in PushValues} \cup {Pop, Add}

tOne == <<"1">>
tBig == <<Digits[Big + 1]>>
tQa == <<QUOTE, "a", QUOTE>>
tQb == <<QUOTE, "b", QUOTE>>
Words(toks) == JoinWith(toks, <<" ">>)

\* Lines of the files main reads.
FileLines ==
    { Words(<<kw_set, nX, tOne>>), Words(<<kw_set, nX, tBig>>),
      Words(<<kw_set, nX, tQa>>), Words(<<kw_get, nX>>),
      Words(<<kw_push, tOne>>),
      Words(<<kw_push, tQb>>), Words(<<kw_pushvar, nX>>),
      kw_pop, kw_add, <<>>,
      Words(<<kw_pop, nX>>),
      kw_get, Words(<<kw_push, nX>>),
      Words(<<<<"S", "E", "T">>, nX, tOne>>) }

FileTexts == {JoinWith(ls, <<"\n">>) : ls \in SeqsUpTo(FileLines, MaxLines)}

\* ------------------------------------------------------------ evaluate

\* The command the loop of evaluate takes next.  main passes the parsed
\* vector; a direct caller's slice is drawn element by element as the loop
\* reaches it.
Fetch ==
    IF caller = "test"
    THEN (IF Len(commands) < MaxCmds THEN DirectCommands ELSE {})
    ELSE (IF pc <= Len(commands) THEN {commands[pc]} ELSE {})

Taken(cmd) == IF caller = "test" THEN Append(commands, cmd) ELSE commands

\* The loop goes on to the next command.
Continue(cmd) ==
    /\ commands' = Taken(cmd)
    /\ pc' = pc + 1
    /\ UNCHANGED <<caller, phase, contents, linei, parse_output,
                   parse_result, base, result>>

\* `return Err(e)` / `?` inside the loop: pc stays on the failing command.
Return(cmd, e) ==
    /\ commands' = Taken(cmd)
    /\ result' = Err(e)
    /\ phase' = "returned"
    /\ UNCHANGED <<caller, contents, linei, parse_output, parse_result,
                   base, pc>>

\* A faulty variant of EvalSetVar: the bound value becomes the pending output.
EvalSetVar_sets_output ==
    /\ phase = "eval"
    /\ \E cmd \in Fetch :
        /\ cmd.op = "SetVar"
        /\ vars' = insert(vars, cmd.name, cmd.value)
        /\ output' = Ok(cmd.value)
        /\ Continue(cmd)
        /\ UNCHANGED stack

EvalSetVar ==
    /\ phase = "eval"
    /\ \E cmd \in Fetch :
        /\ cmd.op = "SetVar"
        /\ vars' = insert(vars, cmd.name, cmd.value)
        /\ Continue(cmd)
        /\ UNCHANGED <<stack, output>>

EvalGetVar ==
    /\ phase = "eval"
    /\ \E cmd \in Fetch :
        /\ cmd.op = "GetVar"
        /\ IF cmd.name \in DOMAIN vars
           THEN output' = Ok(vars[cmd.name]) /\ Continue(cmd)
           ELSE Return(cmd, MissingVariable(cmd.name)) /\ UNCHANGED output
        /\ UNCHANGED <<vars, stack>>

\* A faulty variant of EvalPushVar: an unbound name pushes Value::Nothing.
EvalPushVar_default ==
    /\ phase = "eval"
    /\ \E cmd \in Fetch :
        /\ cmd.op = "PushVar"
        /\ stack' = Append(stack, IF cmd.name \in DOMAIN vars
                                  THEN vars[cmd.name] ELSE ValueNothing)
        /\ Continue(cmd)
        /\ UNCHANGED <<vars, output>>

\* A faulty variant of EvalPushVar: the value is moved out of the variable
\* table instead of cloned.
EvalPushVar_moves ==
    /\ phase = "eval"
    /\ \E cmd \in Fetch :
        /\ cmd.op = "PushVar"
        /\ IF cmd.name \in DOMAIN vars
           THEN /\ stack' = Append(stack, vars[cmd.name])
                /\ vars' = [n \in DOMAIN vars \ {cmd.name} |-> vars[n]]
                /\ Continue(cmd)
           ELSE /\ Return(cmd, MissingVariable(cmd.name))
                /\ UNCHANGED <<stack, vars>>
        /\ UNCHANGED output

EvalPushVar ==
    /\ phase = "eval"
    /\ \E cmd \in Fetch :
        /\ cmd.op = "PushVar"
        /\ IF cmd.name \in DOMAIN vars
           THEN stack' = Append(stack, vars[cmd.name]) /\ Continue(cmd)
           ELSE Return(cmd, MissingVariable(cmd.name)) /\ UNCHANGED stack
        /\ UNCHANGED <<vars, output>>

\* A faulty variant of EvalPush: the pushed value becomes the pending output.
EvalPush_sets_output ==
    /\ phase = "eval"
    /\ \E cmd \in Fetch :
        /\ cmd.op = "Push"
        /\ stack' = Append(stack, cmd.value)
        /\ output' = Ok(cmd.value)
        /\ Continue(cmd)
        /\ UNCHANGED vars

EvalPush ==
    /\ phase = "eval"
    /\ \E cmd \in Fetch :
        /\ cmd.op = "Push"
        /\ stack' = Append(stack, cmd.value)
        /\ Continue(cmd)
        /\ UNCHANGED <<vars, output>>

EvalPop ==
    /\ phase = "eval"
    /\ \E cmd \in Fetch :
        /\ cmd.op = "Pop"
        /\ output' = pop(stack).res
        /\ stack' = pop(stack).stack
        /\ Continue(cmd)
        /\ UNCHANGED vars

\* A faulty variant of EvalAdd: a failing Add puts its operands back.
EvalAdd_atomic ==
    /\ phase = "eval"
    /\ \E cmd \in Fetch :
        /\ cmd.op = "Add"
        /\ LET lhs == pop(stack)
               rhs == pop(lhs.stack)
           IN  IF ~lhs.res.ok
               THEN stack' = stack /\ Return(cmd, lhs.res.e)
               ELSE IF ~rhs.res.ok
               THEN stack' = stack /\ Return(cmd, rhs.res.e)
               ELSE \E r \in add(lhs.res.v, rhs.res.v) :
                       IF r.ok
                       THEN stack' = Append(rhs.stack, r.v) /\ Continue(cmd)
                       ELSE IF r.e = Panic
                       THEN /\ stack' = rhs.stack
                            /\ commands' = Taken(cmd)
                            /\ phase' = "panic"
                            /\ UNCHANGED <<caller, contents, linei,
                                           parse_output, parse_result, base,
                                           pc, result>>
                       ELSE stack' = stack /\ Return(cmd, r.e)
        /\ UNCHANGED <<vars, output>>

EvalAdd ==
    /\ phase = "eval"
    /\ \E cmd \in Fetch :
        /\ cmd.op = "Add"
        /\ LET lhs == pop(stack)
               rhs == pop(lhs.stack)
           IN  IF ~lhs.res.ok
               THEN stack' = lhs.stack /\ Return(cmd, lhs.res.e)
               ELSE IF ~rhs.res.ok
               THEN stack' = rhs.stack /\ Return(cmd, rhs.res.e)
               ELSE \E r \in add(lhs.res.v, rhs.res.v) :
                       IF r.ok
                       THEN stack' = Append(rhs.stack, r.v) /\ Continue(cmd)
                       ELSE IF r.e = Panic
                       THEN /\ stack' = rhs.stack
                            /\ commands' = Taken(cmd)
                            /\ phase' = "panic"
                            /\ UNCHANGED <<caller, contents, linei,
                                           parse_output, parse_result, base,
                                           pc, result>>
                       ELSE stack' = rhs.stack /\ Return(cmd, r.e)
        /\ UNCHANGED <<vars, output>>

\* The loop is over: evaluate returns `output`.
EvalReturn ==
    /\ phase = "eval"
    /\ caller = "test" \/ pc > Len(commands)
    /\ result' = output
    /\ phase' = "returned"
    /\ UNCHANGED <<caller, contents, linei, parse_output, parse_result,
                   commands, base, pc, vars, stack, output>>

\* A faulty variant of TestCallAgain: the pending output of the earlier call
\* is kept.
TestCallAgain_keeps_output ==
    /\ caller = "test"
    /\ phase = "returned"
    /\ Len(commands) < MaxCmds
    /\ phase' = "eval"
    /\ base' = Len(commands)
    /\ pc' = Len(commands) + 1
    /\ result' = NoResult
    /\ UNCHANGED <<caller, contents, linei, parse_output, parse_result,
                   commands, vars, stack, output>>

\* A direct caller hands the same Evaluator another slice.
TestCallAgain ==
    /\ caller = "test"
    /\ phase = "returned"
    /\ Len(commands) < MaxCmds
    /\ phase' = "eval"
    /\ base' = Len(commands)
    /\ pc' = Len(commands) + 1
    /\ output' = Ok(ValueNothing)
    /\ result' = NoResult
    /\ UNCHANGED <<caller, contents, linei, parse_output, parse_result,
                   commands, vars, stack>>

\* ---------------------------------------------------------------- parse

\* A faulty variant of ParseLine: a line that fails is skipped.
ParseLine_skips_failure ==
    /\ phase = "parse"
    /\ linei < Len(lines(contents))
    /\ LET r == parse_line(split_ascii_whitespace(lines(contents)[linei + 1]))
       IN  parse_output' = parse_output \o r.v
    /\ linei' = linei + 1
    /\ UNCHANGED <<caller, phase, parse_result, contents, commands, base,
                   pc, vars, stack, output, result>>

\* One iteration of parse's loop over input.lines().
ParseLine ==
    /\ phase = "parse"
    /\ linei < Len(lines(contents))
    /\ LET r == parse_line(split_ascii_whitespace(lines(contents)[linei + 1]))
       IN  IF r.ok
           THEN /\ parse_output' = parse_output \o r.v
                /\ linei' = linei + 1
                /\ UNCHANGED <<phase, parse_result>>
           ELSE /\ parse_result' = ErrVec(r.e)
                /\ phase' = "parsed"
                /\ UNCHANGED <<parse_output, linei>>
    /\ UNCHANGED <<caller, contents, commands, base, pc, vars,
                   stack, output, result>>

\* The loop is over: parse returns Ok(output).
ParseReturn ==
    /\ phase = "parse"
    /\ linei = Len(lines(contents))
    /\ parse_result' = OkVec(parse_output)
    /\ phase' = "parsed"
    /\ UNCHANGED <<caller, contents, linei, parse_output, commands,
                   base, pc, vars, stack, output, result>>

\* ----------------------------------------------------------------- main

\* The next argument: read the file, Evaluator::new(), call parse.
MainNextArg ==
    /\ caller = "main"
    /\ phase = "args"
    /\ \E text \in FileTexts : contents' = text
    /\ vars' = EmptyMap
    /\ stack' = <<>>
    /\ phase' = "parse"
    /\ UNCHANGED <<caller, linei, parse_output, parse_result, commands, base,
                   pc, output, result>>

\* read_to_string fails and unwrap panics.
MainReadFail ==
    /\ caller = "main"
    /\ phase = "args"
    /\ phase' = "panic"
    /\ UNCHANGED <<caller, contents, linei, parse_output, parse_result,
                   commands, base, pc, vars, stack, output, result>>

\* No argument is left: main returns Ok(()).
MainDone ==
    /\ caller = "main"
    /\ phase = "args"
    /\ phase' = "exit"
    /\ UNCHANGED <<caller, contents, linei, parse_output, parse_result,
                   commands, base, pc, vars, stack, output, result>>

\* `parse(&contents)?` failed: main returns the error.
MainParseErr ==
    /\ caller = "main"
    /\ phase = "parsed"
    /\ ~parse_result.ok
    /\ phase' = "exit"
    /\ UNCHANGED <<caller, contents, linei, parse_output, parse_result,
                   commands, base, pc, vars, stack, output, result>>

\* `engine.evaluate(&commands)` is entered.
MainEvaluate ==
    /\ caller = "main"
    /\ phase = "parsed"
    /\ parse_result.ok
    /\ commands' = parse_result.v
    /\ pc' = 1
    /\ output' = Ok(ValueNothing)
    /\ phase' = "eval"
    /\ UNCHANGED <<caller, contents, linei, parse_output, parse_result,
                   base, vars, stack, result>>

\* `evaluate(..)?` returned: an error ends main; an answer is printed and
\* the iteration's locals (contents, engine, commands, answer) are dropped.
MainAnswer ==
    /\ caller = "main"
    /\ phase = "returned"
    /\ IF result.ok
       THEN /\ phase' = "args"
            /\ contents' = <<>>
            /\ linei' = 0
            /\ parse_output' = <<>>
            /\ parse_result' = NoVec
            /\ commands' = <<>>
            /\ pc' = 1
            /\ vars' = EmptyMap
            /\ stack' = <<>>
            /\ output' = Ok(ValueNothing)
            /\ result' = NoResult
       ELSE /\ phase' = "exit"
            /\ UNCHANGED <<contents, linei, parse_output, parse_result,
                           commands, pc, vars, stack, output, result>>
    /\ UNCHANGED <<caller, base>>

\* ------------------------------------------------------- specification

Fresh ==
    /\ contents = <<>>
    /\ linei = 0
    /\ parse_output = <<>>
    /\ parse_result = NoVec
    /\ commands = <<>>
    /\ base = 0
    /\ pc = 1
    /\ vars = EmptyMap
    /\ stack = <<>>
    /\ output = Ok(ValueNothing)
    /\ result = NoResult

\* main before its first argument, or a direct caller that has made an
\* Evaluator with Evaluator::new() and entered evaluate.
Init ==
    /\ Fresh
    /\ \/ caller = "main" /\ phase = "args"
       \/ caller = "test" /\ phase = "eval"

Next ==
    \/ EvalSetVar \/ EvalGetVar \/ EvalPushVar \/ EvalPush \/ EvalPop
    \/ EvalAdd \/ EvalReturn \/ TestCallAgain
    \/ ParseLine \/ ParseReturn
    \/ MainNextArg \/ MainReadFail \/ MainDone \/ MainParseErr
    \/ MainEvaluate \/ MainAnswer

Spec == Init /\ [][Next]_allvars

\* --------------------------------------------------- history oracles
\* What the commands handed to the Evaluator so far say, read off the
\* history `commands` alone.

Unbound == [t |-> "Unbound", i |-> 0, s |-> <<>>]

\* The value of the most recent SetVar(name, _) among cmds[1..k].
RECURSIVE LastSet(_, _, _)
LastSet(cmds, k, name) ==
    IF k = 0 THEN Unbound
    ELSE IF cmds[k].op = "SetVar" /\ cmds[k].name = name THEN cmds[k].value
    ELSE LastSet(cmds, k - 1, name)

Compatible(l, r) ==
    (l.t = "Int" /\ r.t = "Int") \/ (l.t = "String" /\ r.t = "String")

\* The stack after cmds[1..k] on a fresh Evaluator, while no command but a
\* Pop on the empty stack has failed: strict LIFO, Add combines the top
\* (left) with the entry below it (right).
RECURSIVE StackAfter(_, _)
StackAfter(cmds, k) ==
    IF k = 0 THEN <<>>
    ELSE LET st == StackAfter(cmds, k - 1)
             n == Len(st)
             c == cmds[k]
         IN  IF c.op = "Push" THEN Append(st, c.value)
             ELSE IF c.op = "PushVar"
             THEN Append(st, LastSet(cmds, k - 1, c.name))
             ELSE IF c.op = "Pop"
             THEN (IF n = 0 THEN st ELSE SubSeq(st, 1, n - 1))
             ELSE IF c.op = "Add" /\ n >= 2
             THEN Append(SubSeq(st, 1, n - 2),
                         IF st[n].t = "Int"
                         THEN ValueInt(Wrap(st[n].i + st[n - 1].i))
                         ELSE ValueString(st[n].s \o st[n - 1].s))
             ELSE st

\* The commands of the current call that produce a result.
Producers == {k \in (base + 1)..Len(commands) : commands[k].op \in {"GetVar", "Pop"}}

SetMax(S) == CHOOSE k \in S : \A j \in S : j <= k
SetMin(S) == CHOOSE k \in S : \A j \in S : k <= j

\* The value produced by the last GetVar or Pop of the call: the variable's
\* value at that point, respectively the top of the stack at that point.
LastProduced ==
    IF Producers = {} THEN ValueNothing
    ELSE LET k == SetMax(Producers)
             st == StackAfter(commands, k - 1)
         IN  IF commands[k].op = "GetVar"
             THEN LastSet(commands, k - 1, commands[k].name)
             ELSE IF st = <<>> THEN Unbound ELSE st[Len(st)]

\* No Pop of the history met an empty stack.
EveryPopSucceeded ==
    \A k \in 1..Len(commands) :
        commands[k].op = "Pop" => StackAfter(commands, k - 1) # <<>>

NoNothingLiteral ==
    \A k \in 1..Len(commands) :
        commands[k].op \in {"SetVar", "Push"} => commands[k].value # ValueNothing

\* evaluate returned because its loop ran to the end of the slice.
RanToEnd == phase = "returned" /\ pc = Len(commands) + 1
\* Every command before pc has been executed and none is half done.
Settled == phase = "eval" \/ RanToEnd

\* --------------------------------------------------------------- claims

\* The error the command cmd must fail with on variable table vs and stack
\* st according to C1 (NoError: it succeeds).
Failure(cmd, vs, st) ==
    IF cmd.op = "Pop" /\ st = <<>> THEN EmptyStack
    ELSE IF cmd.op = "Add" /\ Len(st) < 2 THEN EmptyStack
    ELSE IF cmd.op = "Add" /\ ~Compatible(st[Len(st)], st[Len(st) - 1])
    THEN MimatchType
    ELSE IF cmd.op \in {"GetVar", "PushVar"} /\ cmd.name \notin DOMAIN vs
    THEN MissingVariable(cmd.name)
    ELSE NoError

\* C1: the first command that fails (Pop on an empty stack, Add with fewer
\* than two entries or incompatible operands, GetVar/PushVar on an unbound
\* name) ends the run: evaluate returns that command's error at once, so no
\* later command runs; in particular a Pop on an empty stack makes the run
\* return EmptyStack.
C1_FirstFailureAborts ==
    [][(/\ phase = "eval"
        /\ pc <= Len(commands')
        /\ Failure(commands'[pc], vars, stack) # NoError)
       => (/\ phase' = "returned"
           /\ result' = Err(Failure(commands'[pc], vars, stack)))]_allvars

Keywords == {kw_set, kw_get, kw_push, kw_pushvar, kw_pop, kw_add}
\* The token count C2 requires of a line starting with keyword kw.
Arity(kw) ==
    IF kw = kw_set THEN 3
    ELSE IF kw \in {kw_get, kw_push, kw_pushvar} THEN 2
    ELSE 1

TokensOf(k) == split_ascii_whitespace(lines(contents)[k])
WrongArity(toks) ==
    toks # <<>> /\ toks[1] \in Keywords /\ Len(toks) # Arity(toks[1])

\* C2: parse enforces an exact token count for all six keywords (set 3;
\* get, push, pushvar 2; pop, add 1): a text that parses has no keyword
\* line with another count, and a line with another count makes parse fail
\* with MismatchNumParams.
C2_ExactArity ==
    phase = "parsed" =>
        /\ parse_result.ok =>
              \A k \in 1..Len(lines(contents)) : ~WrongArity(TokensOf(k))
        /\ (~parse_result.ok /\ WrongArity(TokensOf(linei + 1))) =>
              parse_result = ErrVec(MismatchNumParams)

\* C3 (as stated): when every command of a run on a fresh Evaluator
\* succeeds, evaluate returns the value produced by the last GetVar or Pop,
\* and returns Nothing exactly when the sequence has no GetVar and no Pop.
C3_NothingIffNoProducer ==
    (RanToEnd /\ base = 0 /\ EveryPopSucceeded) =>
        /\ result = Ok(LastProduced)
        /\ result.v = ValueNothing <=> Producers = {}

\* C3 (amended): a run on a fresh Evaluator that returns a value returns
\* the value produced by its last GetVar or Pop, whatever SetVar, Push,
\* PushVar or Add follow it, and Nothing when it has no GetVar and no Pop;
\* when no SetVar or Push carries Value::Nothing (as in every parsed text),
\* it returns Nothing only then.
C3_ReturnsLastProduced ==
    (phase = "returned" /\ base = 0 /\ result.ok) =>
        /\ result.v = LastProduced
        /\ Producers = {} => result.v = ValueNothing
        /\ (NoNothingLiteral /\ result.v = ValueNothing) => Producers = {}

\* A value was returned although commands followed the last GetVar/Pop.
C3_Witness ==
    /\ phase = "returned" /\ base = 0 /\ result.ok
    /\ EveryPopSucceeded
    /\ Producers # {}
    /\ SetMax(Producers) < Len(commands)
    /\ commands[Len(commands)].op = "SetVar"
    /\ result.v # ValueNothing

\* The literal tokens of the files and the values they denote.
LiteralValue(tok) ==
    IF tok = tOne THEN ValueInt(1)
    ELSE IF tok = tBig THEN ValueInt(Big)
    ELSE ValueString(<<"a">>)

\* C4: a GetVar(name) yields the value of the most recent SetVar(name, _)
\* executed before it, whatever came in between (last write wins); the text
\* `set NAME LIT`, `get NAME` evaluates to the literal, and `set x 1`,
\* `set x 2`, `get x` to the second one.
C4_GetVarLastWrite ==
    /\ (phase \in {"eval", "returned", "panic"} /\ pc - 1 > base
            /\ commands[pc - 1].op = "GetVar") =>
          output = Ok(LastSet(commands, pc - 1, commands[pc - 1].name))
    /\ \A lit \in {tOne, tBig, tQa} :
          (caller = "main" /\ phase = "returned"
              /\ contents = JoinWith(<<Words(<<kw_set, nX, lit>>),
                                       Words(<<kw_get, nX>>)>>, <<"\n">>)) =>
            result = Ok(LiteralValue(lit))
    /\ (caller = "main" /\ phase = "returned"
            /\ contents = JoinWith(<<Words(<<kw_set, nX, tOne>>),
                                     Words(<<kw_set, nX, tBig>>),
                                     Words(<<kw_get, nX>>)>>, <<"\n">>)) =>
          result = Ok(ValueInt(Big))

\* x is read after being bound twice, with a binding of y in between.
C4_Witness ==
    /\ phase = "eval"
    /\ commands = <<SetVar(nX, ValueInt(1)), SetVar(nY, ValueNothing),
                    SetVar(nX, ValueString(<<"a">>)), GetVar(nX)>>
    /\ pc = 5
    /\ output = Ok(ValueString(<<"a">>))

IsString(v) == v.t = "String"

\* C5: Add takes its left operand from the first pop (the value pushed
\* last): `push A`, `push B`, `add`, `pop` returns String(B followed by A);
\* Add replaces the two top entries by the combined value and leaves the
\* entries below untouched.
C5_AddOrder ==
    /\ [](\A A, B \in {v \in PushValues : IsString(v)} :
            (Settled /\ base = 0 /\ pc > 3 /\ commands[pc - 1] = Add
                /\ commands[pc - 2] = Push(B) /\ commands[pc - 3] = Push(A)) =>
              stack = Append(StackAfter(commands, pc - 4),
                             ValueString(B.s \o A.s)))
    /\ [](\A A, B \in {v \in PushValues : IsString(v)} :
            (RanToEnd /\ base = 0
                /\ commands = <<Push(A), Push(B), Add, Pop>>) =>
              result = Ok(ValueString(B.s \o A.s)))
    /\ [][(/\ phase = "eval"
           /\ pc <= Len(commands')
           /\ commands'[pc] = Add
           /\ Len(stack) >= 2
           /\ IsString(stack[Len(stack)])
           /\ IsString(stack[Len(stack) - 1]))
          => (/\ phase' = "eval"
              /\ stack' = Append(SubSeq(stack, 1, Len(stack) - 2),
                                 ValueString(stack[Len(stack)].s
                                             \o stack[Len(stack) - 1].s)))
       ]_allvars

\* `push "a"`, `push "b"`, `add`, `pop` has returned.
C5_Witness ==
    /\ RanToEnd /\ base = 0
    /\ commands = <<Push(ValueString(<<"a">>)), Push(ValueString(<<"b">>)),
                    Add, Pop>>
    /\ result = Ok(ValueString(<<"b", "a">>))

IsInt(v) == v.t = "Int"

\* C6: for Int operands a and b on top of the stack, Add succeeds and
\* pushes Int(a + b), the arithmetic sum, also when the sum lies outside
\* the range of the integer type.
C6_IntAddIsSum ==
    [][(/\ phase = "eval"
        /\ pc <= Len(commands')
        /\ commands'[pc] = Add
        /\ Len(stack) >= 2
        /\ IsInt(stack[Len(stack)])
        /\ IsInt(stack[Len(stack) - 1]))
       => (/\ phase' = "eval"
           /\ stack' = Append(SubSeq(stack, 1, Len(stack) - 2),
                              ValueInt(stack[Len(stack)].i
                                       + stack[Len(stack) - 1].i)))
      ]_allvars

\* C7: Add on two operands that are not both Int and not both String (Int
\* with String in either order, Nothing with anything) fails with
\* MimatchType: evaluate returns it at once, the operands are gone and
\* nothing is pushed.
C7_MixedAddFails ==
    [][(/\ phase = "eval"
        /\ pc <= Len(commands')
        /\ commands'[pc] = Add
        /\ Len(stack) >= 2
        /\ ~Compatible(stack[Len(stack)], stack[Len(stack) - 1]))
       => (/\ phase' = "returned"
           /\ result' = Err(MimatchType)
           /\ stack' = SubSeq(stack, 1, Len(stack) - 2))
      ]_allvars

\* Add has failed on an Int and a String, on a String and an Int, or on a
\* Nothing operand.
C7_Witness ==
    /\ phase = "returned"
    /\ result = Err(MimatchType)
    /\ pc = Len(commands)
    /\ commands[pc] = Add
    /\ pc - 2 > base
    /\ commands[pc - 1].op = "Push" /\ commands[pc - 2].op = "Push"
    /\ commands[pc - 1].value.t = "Int" /\ commands[pc - 2].value.t = "String"

\* C8: Add on a stack of depth 0 or 1 fails with EmptyStack and evaluate
\* returns EmptyStack; no entry is combined with a default and no result is
\* pushed.
C8_AddUnderflow ==
    [][(/\ phase = "eval"
        /\ pc <= Len(commands')
        /\ commands'[pc] = Add
        /\ Len(stack) < 2)
       => (/\ phase' = "returned"
           /\ result' = Err(EmptyStack)
           /\ stack' = <<>>)
      ]_allvars

\* Add has failed on a stack of depth exactly 1.
C8_Witness ==
    /\ phase = "returned"
    /\ result = Err(EmptyStack)
    /\ base = 0
    /\ commands = <<Push(ValueInt(1)), Add>>
    /\ pc = 2

\* C9: a GetVar(name) or PushVar(name) with no SetVar(name, _) executed
\* before it fails with MissingVariable(name): evaluate returns it at once
\* and the variable table, the stack and the pending output stay as they
\* were.
C9_MissingVariable ==
    [][(/\ phase = "eval"
        /\ pc <= Len(commands')
        /\ commands'[pc].op \in {"GetVar", "PushVar"}
        /\ LastSet(commands', pc - 1, commands'[pc].name) = Unbound)
       => (/\ phase' = "returned"
           /\ result' = Err(MissingVariable(commands'[pc].name))
           /\ UNCHANGED <<vars, stack, output>>)
      ]_allvars

\* GetVar of an unbound name has failed while another name is bound, the
\* stack is not empty and an output is pending.
C9_Witness ==
    /\ phase = "returned"
    /\ pc = Len(commands)
    /\ commands[pc] = GetVar(nY)
    /\ result = Err(MissingVariable(nY))
    /\ nX \in DOMAIN vars
    /\ stack # <<>>
    /\ output # Ok(ValueNothing)

\* What each line of the text parses to on its own.
LineResults ==
    LET ls == lines(contents)
    IN  [k \in 1..Len(ls) |-> parse_line(split_ascii_whitespace(ls[k]))]
\* The lines holding at least one token.
NonBlank ==
    LET ls == lines(contents)
    IN  {k \in 1..Len(ls) : split_ascii_whitespace(ls[k]) # <<>>}
Failing(rs) == {k \in DOMAIN rs : ~rs[k].ok}

\* The commands of lines 1..k, in line order.
RECURSIVE Collect(_, _)
Collect(rs, k) == IF k = 0 THEN <<>> ELSE Collect(rs, k - 1) \o rs[k].v

\* C10: parse returns one Command per non-blank line, in line order, and is
\* all-or-nothing: if a line fails, parse returns the error of the first
\* failing line and no commands, and main never evaluates a command of
\* that text, even when earlier lines were valid.
C10_ParseAllOrNothing ==
    caller = "main" =>
        LET rs == LineResults
            bad == Failing(rs)
        IN  /\ (phase = "parsed" /\ parse_result.ok) =>
                  /\ bad = {}
                  /\ parse_result.v = Collect(rs, Len(rs))
                  /\ Len(parse_result.v) = Cardinality(NonBlank)
            /\ (phase = "parsed" /\ ~parse_result.ok) =>
                  /\ bad # {}
                  /\ parse_result = ErrVec(rs[SetMin(bad)].e)
            /\ phase \in {"eval", "returned"} =>
                  /\ bad = {}
                  /\ commands = Collect(rs, Len(rs))
            /\ bad # {} =>
                  /\ phase \in {"parse", "parsed", "exit"}
                  /\ commands = <<>> /\ pc = 1
                  /\ vars = EmptyMap /\ stack = <<>>
                  /\ output = Ok(ValueNothing) /\ result = NoResult

\* main has returned the error of a line that follows valid lines.
C10_Witness ==
    /\ caller = "main"
    /\ phase = "exit"
    /\ ~parse_result.ok /\ parse_result # NoVec
    /\ linei >= 1
    /\ parse_output # <<>>
    /\ commands = <<>>

\* ------------------------------------------- parse called on its own

\* A caller that only parses (the tests call parse(input) themselves): the
\* text is any of the literal texts or keyword texts below.
tSET == <<"S", "E", "T">>
tPop == <<"P", "o", "p">>
tFoo == <<"f", "o", "o">>
tPopx == <<"p", "o", "p", "x">>

BlankLines == {<<>>, <<" ">>, <<"\t", " ">>}

KeywordLines ==
    BlankLines \cup
    { Words(<<kw_set, nX, tOne>>),
      Words(<<kw_get, nX>>),
      Words(<<kw_pop>>),
      <<" ">> \o Words(<<kw_add>>) \o <<"\t">>,
      Words(<<tSET, nX, tOne>>),
      Words(<<tPop>>),
      Words(<<tPopx>>),
      <<"\t">> \o Words(<<tFoo, tOne, tOne, tOne>>),
      Words(<<tOne, kw_pop>>) }

KeywordTexts == {JoinWith(ls, <<"\n">>) : ls \in SeqsUpTo(KeywordLines, MaxParseLines)}

TokenChars == {QUOTE, "a", "0", "1", Digits[IntMax + 2], "-", "+"}
Tokens == SeqsUpTo(TokenChars, MaxTokenLen) \ {<<>>}

LiteralTexts ==
    {Words(<<kw_push, tok>>) : tok \in Tokens} \cup
    {Words(<<kw_set, nX, tok>>) : tok \in Tokens}

ParseTexts == KeywordTexts \cup LiteralTexts

InitParse ==
    /\ caller = "parse"
    /\ phase = "parse"
    /\ contents \in ParseTexts
    /\ linei = 0
    /\ parse_output = <<>>
    /\ parse_result = NoVec
    /\ commands = <<>>
    /\ base = 0
    /\ pc = 1
    /\ vars = EmptyMap
    /\ stack = <<>>
    /\ output = Ok(ValueNothing)
    /\ result = NoResult

NextParse == ParseLine \/ ParseReturn

ParseSpec == InitParse /\ [][NextParse]_allvars

\* A line of whitespace characters only.
IsBlank(line) == \A k \in 1..Len(line) : line[k] \in {" ", "\t", "\f", "\r"}

\* C11: a line whose first token is none of the six lowercase keywords makes
\* parse return UnknownCommand carrying exactly that token, whatever follows
\* it on the line; an empty or whitespace-only line adds no Command, raises
\* no error and leaves the commands collected from the other lines as they
\* are.
C11_UnknownAndBlank ==
    [][(phase = "parse" /\ linei < Len(lines(contents)))
       => LET line == lines(contents)[linei + 1]
              toks == split_ascii_whitespace(line)
          IN  /\ IsBlank(line)
                  => /\ phase' = "parse"
                     /\ linei' = linei + 1
                     /\ parse_output' = parse_output
                     /\ parse_result' = parse_result
              /\ ~IsBlank(line)
                  => /\ toks # <<>>
                     /\ toks[1] \notin Keywords
                         => /\ phase' = "parsed"
                            /\ parse_result' = ErrVec(UnknownCommand(toks[1]))
                            /\ parse_output' = parse_output]_allvars

\* A whitespace-only line was passed over, a command before and after it was
\* collected, and then `SET x 1` stopped parse with UnknownCommand("SET").
C11_Witness ==
    /\ caller = "parse"
    /\ phase = "parsed"
    /\ lines(contents) = << Words(<<kw_pop>>), <<"\t", " ">>,
                            Words(<<tSET, nX, tOne>>) >>
    /\ parse_output = <<Pop>>
    /\ parse_result = ErrVec(UnknownCommand(tSET))

\* The decimal digits of m, for 0 <= m < 100.
Dec(m) ==
    IF m < 10 THEN <<Digits[m + 1]>>
    ELSE <<Digits[(m \div 10) + 1], Digits[(m % 10) + 1]>>

Zeros(k) == [i \in 1..k |-> "0"]

\* Every way of writing the integer n as a literal: an optional sign ("-"
\* for a negative n, "+" or none for a positive one, any of them for 0),
\* leading zeros, and the decimal digits of its magnitude.
Spellings(n) ==
    LET signs == IF n < 0 THEN {<<"-">>}
                 ELSE IF n > 0 THEN {<<>>, <<"+">>}
                 ELSE {<<>>, <<"+">>, <<"-">>}
        mag == IF n < 0 THEN -n ELSE n
    IN  {sg \o Zeros(k) \o Dec(mag) : sg \in signs, k \in 0..MaxTokenLen}

IsIntLiteral(tok) == \E n \in IntMin..IntMax : tok \in Spellings(n)
IntLiteral(tok) == CHOOSE n \in IntMin..IntMax : tok \in Spellings(n)

\* What the claim says a value-literal token is.
Classified(tok) ==
    IF Len(tok) > 1 /\ tok[1] = QUOTE /\ tok[Len(tok)] = QUOTE
    THEN Ok(ValueString([i \in 1..(Len(tok) - 2) |-> tok[i + 1]]))
    ELSE IF IsIntLiteral(tok) THEN Ok(ValueInt(IntLiteral(tok)))
    ELSE Err(MimatchType)

\* C12: a value-literal token longer than one character that starts and ends
\* with a double quote is the String of the characters between the quotes
\* (the token of two quotes is the empty string); any other token is the Int
\* it spells when it is a valid signed integer literal of the integer width
\* and a type-mismatch error otherwise, which includes the single quote
\* character and a token that starts with a quote but does not end with one.
C12_ValueLiterals ==
    (caller = "parse" /\ phase = "parsed")
    => LET pushed == SubSeq(contents, Len(kw_push) + 2, Len(contents))
           bound == SubSeq(contents, Len(kw_set) + Len(nX) + 3, Len(contents))
       IN  /\ (pushed \in Tokens /\ contents = Words(<<kw_push, pushed>>))
               => LET want == Classified(pushed)
                  IN  parse_result = (IF want.ok THEN OkVec(<<Push(want.v)>>)
                                      ELSE ErrVec(want.e))
           /\ (bound \in Tokens /\ contents = Words(<<kw_set, nX, bound>>))
               => LET want == Classified(bound)
                  IN  parse_result = (IF want.ok
                                      THEN OkVec(<<SetVar(nX, want.v)>>)
                                      ELSE ErrVec(want.e))

\* `push ""` has parsed to a Push of the empty string.
C12_Witness ==
    /\ caller = "parse"
    /\ phase = "parsed"
    /\ contents = Words(<<kw_push, <<QUOTE, QUOTE>>>>)
    /\ Classified(<<QUOTE, QUOTE>>) = Ok(ValueString(<<>>))
    /\ parse_result = OkVec(<<Push(ValueString(<<>>))>>)

\* ------------------------------------------------ evaluator state

\* evaluate has been entered and has executed no command of its slice yet.
CallStart == phase = "eval" /\ pc = base + 1

Executes == phase = "eval" /\ pc <= Len(commands')

\* C14: PushVar pushes a snapshot of the variable's value and leaves the
\* variable table and the pending output as they are; a later SetVar of the
\* same name leaves the stack as it is, so that PushVar(name), SetVar(name,
\* w), Pop returns the value the name had at the PushVar.
C14_PushVarSnapshot ==
    /\ [][(Executes /\ commands'[pc].op = "PushVar"
                    /\ commands'[pc].name \in DOMAIN vars)
          => /\ stack' = Append(stack, vars[commands'[pc].name])
             /\ vars' = vars
             /\ output' = output
             /\ phase' = "eval"]_allvars
    /\ [][(Executes /\ commands'[pc].op = "SetVar") => stack' = stack]_allvars
    /\ [](/\ Settled
          /\ pc - 3 > base
          /\ commands[pc - 3].op = "PushVar"
          /\ commands[pc - 2].op = "SetVar"
          /\ commands[pc - 2].name = commands[pc - 3].name
          /\ commands[pc - 1] = Pop
          => /\ output = Ok(LastSet(commands, pc - 4, commands[pc - 3].name))
             /\ vars[commands[pc - 2].name] = commands[pc - 2].value)

\* set x 1, pushvar x, set x "a", pop has returned Int(1), x is "a".
C14_Witness ==
    /\ RanToEnd
    /\ commands = <<SetVar(nX, ValueInt(1)), PushVar(nX),
                    SetVar(nX, ValueString(<<"a">>)), Pop>>
    /\ result = Ok(ValueInt(1))
    /\ vars[nX] = ValueString(<<"a">>)

\* C15: the variable table is changed only by SetVar and only at the key it
\* names; the stack is changed only by Push, PushVar, Pop and Add; the
\* pending output is changed only by GetVar and Pop, so that push, push, add
\* with no later pop returns Nothing.
C15_Frames ==
    /\ [][Executes
          => LET cmd == commands'[pc]
             IN  /\ cmd.op # "SetVar" => vars' = vars
                 /\ cmd.op = "SetVar"
                     => /\ DOMAIN vars' = DOMAIN vars \cup {cmd.name}
                        /\ \A n \in DOMAIN vars \ {cmd.name} : vars'[n] = vars[n]
                 /\ cmd.op \in {"SetVar", "GetVar"} => stack' = stack
                 /\ cmd.op \notin {"GetVar", "Pop"} => output' = output]_allvars
    /\ [][(phase = "eval" /\ ~Executes)
          => (vars' = vars /\ stack' = stack /\ output' = output)]_allvars
    /\ [](/\ RanToEnd
          /\ base = 0
          /\ Len(commands) = 3
          /\ commands[1].op = "Push"
          /\ commands[2].op = "Push"
          /\ commands[3] = Add
          => result = Ok(ValueNothing))

\* push 1, push Big, add has returned Nothing and left the sum on the stack.
C15_Witness ==
    /\ RanToEnd
    /\ commands = <<Push(ValueInt(1)), Push(ValueInt(Big)), Add>>
    /\ result = Ok(ValueNothing)
    /\ stack = <<ValueInt(1 + Big)>>
    /\ vars = EmptyMap

\* How many of commands[1..k] are `op` commands.
Count(op, k) == Cardinality({j \in 1..k : commands[j].op = op})

\* None of commands[1..k] is a Pop that met an empty stack.
PopsSucceeded(k) ==
    \A j \in 1..k : commands[j].op = "Pop" => StackAfter(commands, j - 1) # <<>>

\* The values commands[1..k] can have put on the stack: the literals of its
\* Push commands, the values its SetVar commands bound, and the sums and
\* concatenations of such values.
RECURSIVE Pushable(_)
Pushable(k) ==
    IF k = 0 THEN {}
    ELSE LET before == Pushable(k - 1)
             c == commands[k]
         IN  IF c.op \in {"Push", "SetVar"} THEN before \cup {c.value}
             ELSE IF c.op = "Add"
             THEN before \cup
                  {ValueInt(Wrap(l.i + r.i)) :
                      l \in {v \in before : v.t = "Int"},
                      r \in {v \in before : v.t = "Int"}} \cup
                  {ValueString(l.s \o r.s) :
                      l \in {v \in before : v.t = "String"},
                      r \in {v \in before : v.t = "String"}}
             ELSE before

\* C16: after a prefix of commands that all succeeded on a fresh Evaluator
\* the stack depth is #Push + #PushVar - #Pop - #Add of the prefix and never
\* negative, every entry is a value a Push, a PushVar or an Add put there,
\* and a Pop returns the most recently pushed entry not yet removed.
C16_StackDiscipline ==
    (Settled /\ base = 0 /\ PopsSucceeded(pc - 1))
    => LET k == pc - 1
           depth == Count("Push", k) + Count("PushVar", k)
                    - Count("Pop", k) - Count("Add", k)
       IN  /\ depth >= 0
           /\ Len(stack) = depth
           /\ \A i \in 1..Len(stack) : stack[i] \in Pushable(k)
           /\ stack = StackAfter(commands, k)
           /\ (k >= 1 /\ commands[k] = Pop)
               => LET st == StackAfter(commands, k - 1)
                  IN  output = Ok(st[Len(st)])

\* push 1, push "a", pop, push "b": the pop gave "a", the stack is 1, "b".
C16_Witness ==
    /\ Settled
    /\ base = 0
    /\ pc = 5
    /\ commands = <<Push(ValueInt(1)), Push(ValueString(<<"a">>)), Pop,
                    Push(ValueString(<<"b">>))>>
    /\ output = Ok(ValueString(<<"a">>))
    /\ stack = <<ValueInt(1), ValueString(<<"b">>)>>

\* evaluate, on a fresh Evaluator, has returned early out of an Add.
AddFailed ==
    /\ phase \in {"returned", "exit"}
    /\ base = 0
    /\ result # NoResult
    /\ ~result.ok
    /\ pc <= Len(commands)
    /\ commands[pc] = Add

\* C17: a failing Add is not undone.  On a stack of depth 1 it fails with
\* EmptyStack and the one entry is gone; on two operands of different types
\* it fails with the type mismatch and both operands are gone; the entries
\* below them, and every binding made before, stay in the Evaluator, and
\* the variable table is what the commands before the Add made it.
C17_FailingAddNotAtomic ==
    /\ [](AddFailed
          => LET before == StackAfter(commands, pc - 1)
                 n == Len(before)
             IN  /\ n < 2 => (result = Err(EmptyStack) /\ stack = <<>>)
                 /\ n >= 2 => /\ result = Err(MimatchType)
                              /\ stack = SubSeq(before, 1, n - 2)
                 /\ DOMAIN vars
                        = {m \in Names : LastSet(commands, pc - 1, m) # Unbound}
                 /\ \A m \in DOMAIN vars :
                        vars[m] = LastSet(commands, pc - 1, m))
    /\ [][(phase = "returned" /\ ~result.ok)
          => (vars' = vars /\ stack' = stack)]_allvars

\* set x 1, push 1, add: Add failed with EmptyStack, the pushed entry is
\* gone and x is still bound.
C17_Witness ==
    /\ AddFailed
    /\ phase = "returned"
    /\ commands = <<SetVar(nX, ValueInt(1)), Push(ValueInt(1)), Add>>
    /\ result = Err(EmptyStack)
    /\ stack = <<>>
    /\ vars = insert(EmptyMap, nX, ValueInt(1))

\* C18: for a command sequence that parse produced, evaluated on a fresh
\* Evaluator, no variable is bound to Value::Nothing and no stack entry is
\* Value::Nothing; so a GetVar or Pop that succeeds never makes the pending
\* output Nothing (the output is Nothing only while no GetVar and no Pop has
\* run), and an Add that fails with the type mismatch had an Int and a
\* String as operands, never a Nothing.
C18_NoNothingFromText ==
    caller = "main"
    => /\ \A k \in 1..Len(parse_output) :
              parse_output[k].op \in {"SetVar", "Push"}
              => parse_output[k].value.t \in {"Int", "String"}
       /\ \A n \in DOMAIN vars : vars[n].t \in {"Int", "String"}
       /\ \A i \in 1..Len(stack) : stack[i].t \in {"Int", "String"}
       /\ (phase \in {"eval", "returned"} /\ output = Ok(ValueNothing))
           => \A k \in 1..(pc - 1) : commands[k].op \notin {"GetVar", "Pop"}
       /\ (phase = "returned" /\ result.ok /\ Producers # {})
           => result.v.t \in {"Int", "String"}
       /\ (AddFailed /\ result = Err(MimatchType))
           => LET before == StackAfter(commands, pc - 1)
                  n == Len(before)
              IN  {before[n].t, before[n - 1].t} = {"Int", "String"}

\* main has evaluated the text set x 1 / pushvar x / get x: the binding, the
\* stack entry and the returned value are Ints.
C18_Witness ==
    /\ caller = "main"
    /\ RanToEnd
    /\ commands = <<SetVar(nX, ValueInt(1)), PushVar(nX), GetVar(nX)>>
    /\ result = Ok(ValueInt(1))
    /\ stack = <<ValueInt(1)>>
    /\ vars = insert(EmptyMap, nX, ValueInt(1))


====
